---- MODULE Spec2Model ----
(***************************************************************************)
(* Model of the sfn-machine crate: the StateMachine of                     *)
(* src/machine/state.rs (step, validate_node_ids, get_node_ids,            *)
(* execute_by_id, execute) and exponential_backoff of                      *)
(* src/machine/backoff.rs.                                                 *)
(*                                                                         *)
(* The shared data T is the SharedData struct of the tests with one more   *)
(* field, fails, that lets a work function fail a number of times and then *)
(* succeed.  The counter is an unbounded integer: the crate is generic in  *)
(* T and fixes no width.                                                   *)
(***************************************************************************)
EXTENDS Integers, Sequences, FiniteSets, Bags, TLC

VARIABLES scenario, id, nodes, node_ids, retries, shared_data, error_string,
          pc, cursor, log, attempts, result, last_call, ncalls

vars == <<scenario, id, nodes, node_ids, retries, shared_data, error_string,
          pc, cursor, log, attempts, result, last_call, ncalls>>

(***************************************************************************)
(* Bounds.                                                                 *)
(***************************************************************************)
\* largest retry budget handed to StateMachine::new
MaxRetries == 1
\* largest number of failures the flaky work function starts with
MaxFails == 2
\* most execute() / execute_by_id() calls made on one machine
MaxCalls == 2
\* largest budget handed to exponential_backoff when it is called alone
MaxBudget == 7

(***************************************************************************)
(* Option<T>: None is the empty sequence, Some(v) the one-element one.     *)
(***************************************************************************)
None == <<>>

Some(v) == <<v>>

IsSome(o) == o # <<>>

Unwrap(o) == o[1]

\* format!("{:?}", Option<String>): Some("msg") or None
DebugFmt(o) == IF IsSome(o) THEN "Some(\"" \o Unwrap(o) \o "\")" ELSE "None"

(***************************************************************************)
(* The work functions (StateFunction<T>) the callers register.             *)
(***************************************************************************)
STATE_FAILED == "STATE.FAILED"

OTHER_FAILED == "OTHER.FAILED"

InitialCounter == 5

FnOk(data) == [ok |-> TRUE, err |-> "", data |-> data]

FnErr(msg, data) == [ok |-> FALSE, err |-> msg, data |-> data]

\* Call(f, data): the result of calling the function named f on the data
Call(f, data) ==
    CASE f = "state_function_a" ->
             FnOk([data EXCEPT !.counter = @ + 1])
      [] f = "state_function_b" ->
             FnOk([data EXCEPT !.counter = @ + 100])
      [] f = "state_function_c" ->
             FnOk([data EXCEPT !.counter = @ * 1])
      [] f = "state_function_d" ->
             FnOk([data EXCEPT !.counter = @ * 5])
      [] f = "okay" -> FnOk(data)
      [] f = "pass" -> FnOk(data)
      [] f = "choice" -> FnOk(data)
      [] f = "error" -> FnErr(STATE_FAILED, data)
      [] f = "other_error" -> FnErr(OTHER_FAILED, data)
      [] f = "flaky" ->
             IF data.fails > 0
             THEN FnErr(STATE_FAILED, [data EXCEPT !.fails = @ - 1])
             ELSE FnOk(data)

(***************************************************************************)
(* State and StateNode.                                                    *)
(***************************************************************************)
Task == [kind |-> "Task", pred |-> FALSE, secs |-> 0]

Choice(p) == [kind |-> "Choice", pred |-> p, secs |-> 0]

Sleep(v) == [kind |-> "Sleep", pred |-> FALSE, secs |-> v]

Pass == [kind |-> "Pass", pred |-> FALSE, secs |-> 0]

Succeed == [kind |-> "Succeed", pred |-> FALSE, secs |-> 0]

Fail == [kind |-> "Fail", pred |-> FALSE, secs |-> 0]

ErrorBlock(error_equals, next) == [error_equals |-> error_equals, next |-> next]

\* the arguments of one step() call
StepArgs(nid, state, state_function, next, catch, retry, end) ==
    [id |-> nid, state |-> state, state_function |-> state_function,
     next |-> next, catch |-> catch, retry |-> retry, end |-> end]

\* StateNode::new
NewNode(a) ==
    [id |-> a.id, state |-> a.state, state_function |-> a.state_function,
     invocation_count |-> 0, catch |-> a.catch, retry |-> a.retry,
     next |-> a.next, end |-> a.end]

\* one entry of the log of a call: a function the engine invoked
Event(ev, nid, f, r) ==
    [ev |-> ev, node |-> nid, f |-> f, res |-> IF r.ok THEN "Ok" ELSE r.err]

BackoffEvent(nid) == [ev |-> "backoff", node |-> nid, f |-> "", res |-> ""]

\* a Choice node run without asking its predicate
NodeExecuteChoiceAlways(node, data) ==
    LET r == Call(node.state_function, data)
    IN IF node.state.kind \in {"Task", "Choice"}
       THEN [ok |-> r.ok, err |-> r.err, data |-> r.data,
             log |-> <<Event("work", node.id, node.state_function, r)>>]
       ELSE [ok |-> TRUE, err |-> "", data |-> data, log |-> <<>>]

\* StateNode::execute: the state-kind rule
NodeExecute(node, data) ==
    LET r == Call(node.state_function, data)
        runs == \/ node.state.kind = "Task"
                \/ node.state.kind = "Choice" /\ node.state.pred
    IN IF runs
       THEN [ok |-> r.ok, err |-> r.err, data |-> r.data,
             log |-> <<Event("work", node.id, node.state_function, r)>>]
       ELSE [ok |-> TRUE, err |-> "", data |-> data, log |-> <<>>]

(***************************************************************************)
(* exponential_backoff (src/machine/backoff.rs).  The operation is the     *)
(* closure |x| node.execute(x).  The sleeps are left out; the delay is     *)
(* carried along as a number of seconds.                                   *)
(***************************************************************************)
\* let mut max_retries = 5
DefaultMaxRetries == 5

\* the budget taken over whatever its size
EffectiveMaxRetriesUnclamped(budget) == budget

\* the ifelse! of line 29: a budget above 5 prints the message and is not
\* taken over, any other budget replaces the default
EffectiveMaxRetries(budget) ==
    IF budget > DefaultMaxRetries THEN DefaultMaxRetries ELSE budget

\* the final invocation of line 43: its error is returned, its success panics
BackoffFinal(node, data, acc) ==
    LET r == NodeExecute(node, data)
    IN [outcome |-> IF r.ok THEN "Panic" ELSE "Err",
        err |-> r.err, data |-> r.data, log |-> acc.log \o r.log,
        attempts |-> acc.attempts + 1, delay |-> acc.delay]

RECURSIVE BackoffLoop(_, _, _, _, _)
\* the while loop of lines 31-41
BackoffLoop(node, data, n_retries, max_retries, acc) ==
    IF n_retries < max_retries
    THEN LET r == NodeExecute(node, data)
         IN IF r.ok
            THEN [outcome |-> "Ok", err |-> "", data |-> r.data,
                  log |-> acc.log \o r.log,
                  attempts |-> acc.attempts + 1, delay |-> acc.delay]
            ELSE BackoffLoop(node, r.data, n_retries + 1, max_retries,
                             [log |-> acc.log \o r.log,
                              attempts |-> acc.attempts + 1,
                              delay |-> acc.delay * 2])
    ELSE BackoffFinal(node, data, acc)

\* the loop counter started one too high
exponential_backoff_from_one(node, data, budget) ==
    BackoffLoop(node, data, 1, EffectiveMaxRetries(budget),
                [log |-> <<>>, attempts |-> 0, delay |-> 1])

exponential_backoff(node, data, budget) ==
    BackoffLoop(node, data, 0, EffectiveMaxRetries(budget),
                [log |-> <<>>, attempts |-> 0, delay |-> 1])

(***************************************************************************)
(* One iteration of the for loop of StateMachine::execute.                 *)
(***************************************************************************)
IsTerminal(node) == IsSome(node.end) /\ Unwrap(node.end)

InvokedMessage(mid, nid) ==
    "state machine " \o mid \o " failed for step " \o nid
        \o ". Step have been invoked upto three times"

Flow(flow, message, data, es, lg, att) ==
    [flow |-> flow, message |-> message, data |-> data, error_string |-> es,
     log |-> lg, attempts |-> att]

\* the scan of the catch table stopped at the first matching entry
CatchLoopFirstMatch(catch, k, nid, es, data, lg) ==
    IF \E m \in k..Len(catch) : Unwrap(es) \in catch[m].error_equals
    THEN LET m == CHOOSE m \in k..Len(catch) :
                     /\ Unwrap(es) \in catch[m].error_equals
                     /\ \A j \in k..(m - 1) :
                            Unwrap(es) \notin catch[j].error_equals
             r == Call(catch[m].next, data)
         IN [ok |-> r.ok, err |-> r.err, data |-> r.data,
             log |-> Append(lg, Event("catch", nid, catch[m].next, r))]
    ELSE [ok |-> TRUE, err |-> "", data |-> data, log |-> lg]

RECURSIVE CatchLoop(_, _, _, _, _, _)
\* lines 245-260: every entry whose error_equals contains the pending error
\* has its next function called, in table order; a failure stops the scan
CatchLoop(catch, k, nid, es, data, lg) ==
    IF k > Len(catch)
    THEN [ok |-> TRUE, err |-> "", data |-> data, log |-> lg]
    ELSE IF Unwrap(es) \in catch[k].error_equals
         THEN LET r == Call(catch[k].next, data)
                  lg2 == Append(lg, Event("catch", nid, catch[k].next, r))
              IN IF r.ok
                 THEN CatchLoop(catch, k + 1, nid, es, r.data, lg2)
                 ELSE [ok |-> FALSE, err |-> r.err, data |-> r.data,
                       log |-> lg2]
         ELSE CatchLoop(catch, k + 1, nid, es, data, lg)

\* a work failure recorded as the pending error
RunWorkSetsError(node, data, es, lg, budget) ==
    LET r == NodeExecute(node, data)
        lg2 == lg \o r.log
    IN IF ~r.ok
       THEN IF IsSome(node.retry) /\ r.err \in Unwrap(node.retry)
            THEN LET b == exponential_backoff(node, r.data, budget)
                     lg3 == Append(lg2, BackoffEvent(node.id)) \o b.log
                 IN IF b.outcome = "Panic"
                    THEN Flow("panic", "", b.data, Some(r.err), lg3,
                              b.attempts)
                    ELSE Flow("return_err", r.err, b.data, Some(r.err), lg3,
                              b.attempts)
            ELSE Flow("return_err", r.err, r.data, Some(r.err), lg2, 0)
       ELSE IF IsTerminal(node)
            THEN Flow("break", "", r.data, es, lg2, 0)
            ELSE Flow("continue", "", r.data, es, lg2, 0)

\* the pass stopped after the first node whose work succeeds
RunWorkBreak(node, data, es, lg, budget) ==
    LET r == NodeExecute(node, data)
    IN IF r.ok
       THEN Flow("break", "", r.data, es, lg \o r.log, 0)
       ELSE Flow("return_err", r.err, r.data, es, lg \o r.log, 0)

\* the retry taken for any failure of a node that has a retry list
RunWorkRetryAny(node, data, es, lg, budget) ==
    LET r == NodeExecute(node, data)
        lg2 == lg \o r.log
    IN IF ~r.ok
       THEN IF IsSome(node.retry)
            THEN LET b == exponential_backoff(node, r.data, budget)
                     lg3 == Append(lg2, BackoffEvent(node.id)) \o b.log
                 IN IF b.outcome = "Panic"
                    THEN Flow("panic", "", b.data, es, lg3, b.attempts)
                    ELSE Flow("return_err", r.err, b.data, es, lg3,
                              b.attempts)
            ELSE Flow("return_err", r.err, r.data, es, lg2, 0)
       ELSE IF IsTerminal(node)
            THEN Flow("break", "", r.data, es, lg2, 0)
            ELSE Flow("continue", "", r.data, es, lg2, 0)

\* lines 281-301: the node's own work, the retry through backoff and the
\* post-check of the end flag
RunWork(node, data, es, lg, budget) ==
    LET r == NodeExecute(node, data)
        lg2 == lg \o r.log
    IN IF ~r.ok
       THEN IF IsSome(node.retry) /\ r.err \in Unwrap(node.retry)
            THEN LET b == exponential_backoff(node, r.data, budget)
                     lg3 == Append(lg2, BackoffEvent(node.id)) \o b.log
                 IN IF b.outcome = "Panic"
                    THEN Flow("panic", "", b.data, es, lg3, b.attempts)
                    ELSE Flow("return_err", r.err, b.data, es, lg3,
                              b.attempts)
            ELSE Flow("return_err", r.err, r.data, es, lg2, 0)
       ELSE IF IsTerminal(node)
            THEN Flow("break", "", r.data, es, lg2, 0)
            ELSE Flow("continue", "", r.data, es, lg2, 0)

\* a failure of the next override passed over
RunNextIgnoreFailure(node, data, es, lg, budget) ==
    IF IsSome(node.next)
    THEN LET r == Call(Unwrap(node.next), data)
             lg2 == Append(lg, Event("next", node.id, Unwrap(node.next), r))
         IN RunWork(node, r.data, es, lg2, budget)
    ELSE RunWork(node, data, es, lg, budget)

\* lines 262-278: the next override
RunNext(node, data, es, lg, budget) ==
    IF IsSome(node.next)
    THEN LET r == Call(Unwrap(node.next), data)
             lg2 == Append(lg, Event("next", node.id, Unwrap(node.next), r))
         IN IF r.ok
            THEN RunWork(node, r.data, es, lg2, budget)
            ELSE Flow("return_err", DebugFmt(Some(r.err)), r.data,
                      Some(r.err), lg2, 0)
    ELSE RunWork(node, data, es, lg, budget)

\* the pending error cleared once the recovery functions have succeeded
RunCatchClears(node, data, es, budget) ==
    IF IsSome(es) /\ ~IsSome(node.catch)
    THEN Flow("return_err", DebugFmt(es), data, es, <<>>, 0)
    ELSE IF IsSome(es) /\ IsSome(node.catch)
         THEN LET c == CatchLoop(Unwrap(node.catch), 1, node.id, es, data,
                                 <<>>)
              IN IF c.ok
                 THEN RunNext(node, c.data,
                              IF c.log # <<>> THEN None ELSE es, c.log,
                              budget)
                 ELSE Flow("return_err", DebugFmt(Some(c.err)), c.data,
                           Some(c.err), c.log, 0)
         ELSE RunNext(node, data, es, <<>>, budget)

\* a pending error not propagated at a node without a catch table
RunCatchNoPropagate(node, data, es, budget) ==
    IF IsSome(es) /\ IsSome(node.catch)
    THEN LET c == CatchLoop(Unwrap(node.catch), 1, node.id, es, data, <<>>)
         IN IF c.ok
            THEN RunNext(node, c.data, es, c.log, budget)
            ELSE Flow("return_err", DebugFmt(Some(c.err)), c.data,
                      Some(c.err), c.log, 0)
    ELSE RunNext(node, data, es, <<>>, budget)

\* lines 238-260: the pending error and the catch table
RunCatch(node, data, es, budget) ==
    IF IsSome(es) /\ ~IsSome(node.catch)
    THEN Flow("return_err", DebugFmt(es), data, es, <<>>, 0)
    ELSE IF IsSome(es) /\ IsSome(node.catch)
         THEN LET c == CatchLoop(Unwrap(node.catch), 1, node.id, es, data,
                                 <<>>)
              IN IF c.ok
                 THEN RunNext(node, c.data, es, c.log, budget)
                 ELSE Flow("return_err", DebugFmt(Some(c.err)), c.data,
                           Some(c.err), c.log, 0)
         ELSE RunNext(node, data, es, <<>>, budget)

\* the loop without the pre-check of the end flag
ProcessNodeNoPreCheck(node, data, es, mid, budget) ==
    IF node.invocation_count = 2
    THEN Flow("return_err", InvokedMessage(mid, node.id), data, es, <<>>, 0)
    ELSE RunCatch(node, data, es, budget)

\* lines 226-236: the pre-check of the end flag and the invocation guard
ProcessNode(node, data, es, mid, budget) ==
    IF IsTerminal(node)
    THEN Flow("break", "", data, es, <<>>, 0)
    ELSE IF node.invocation_count = 2
         THEN Flow("return_err", InvokedMessage(mid, node.id), data, es,
                   <<>>, 0)
         ELSE RunCatch(node, data, es, budget)

(***************************************************************************)
(* The step() calls the callers make, grouped by the program they come     *)
(* from.  "basic" is tests/basic.rs, "custom" is tests/custom.rs with its  *)
(* Node0 in the variants the retry list allows, "catch" is a machine whose *)
(* NodeX has a next override that fails a number of times and whose nodes  *)
(* have catch tables, "kinds" is a machine of Succeed, Fail, Pass and Task *)
(* nodes.                                                                  *)
(***************************************************************************)
Scenarios == {"basic", "custom", "catch", "kinds"}

BasicSteps ==
    { StepArgs("NodeA", Task, "state_function_a", None, None, None, None),
      StepArgs("NodeB", Task, "state_function_b", None, None, None, None),
      StepArgs("NodeC", Task, "state_function_c", None, None, None, None),
      StepArgs("NodeD", Task, "state_function_d", None, None, None,
               Some(TRUE)) }

CustomSteps ==
    { StepArgs("Node0", Task, "error", None, None, Some({STATE_FAILED}),
               Some(FALSE)),
      StepArgs("Node0", Task, "error", None, None, None, None),
      StepArgs("Node0", Task, "other_error", None, None,
               Some({STATE_FAILED}), None),
      StepArgs("Node0", Task, "flaky", None, None, Some({STATE_FAILED}),
               Some(FALSE)),
      StepArgs("NodeE", Choice(TRUE), "okay", None, None, None, None),
      StepArgs("NodeE", Choice(FALSE), "state_function_b", None, None, None,
               None),
      StepArgs("NodeC", Sleep(1), "okay", None, None, None, None) }

CatchSteps ==
    { StepArgs("NodeX", Task, "state_function_a", Some("flaky"),
               Some(<<ErrorBlock({STATE_FAILED}, "state_function_a")>>),
               None, None),
      StepArgs("NodeX", Task, "state_function_a", Some("flaky"),
               Some(<<ErrorBlock({OTHER_FAILED}, "state_function_b")>>),
               None, None),
      StepArgs("NodeB", Task, "state_function_b", None,
               Some(<<ErrorBlock({STATE_FAILED}, "state_function_a"),
                      ErrorBlock({OTHER_FAILED}, "state_function_b"),
                      ErrorBlock({STATE_FAILED, OTHER_FAILED},
                                 "state_function_d")>>),
               None, None),
      StepArgs("NodeB", Task, "state_function_b", None,
               Some(<<ErrorBlock({STATE_FAILED}, "other_error"),
                      ErrorBlock({STATE_FAILED}, "state_function_a")>>),
               None, None),
      StepArgs("NodeE", Choice(FALSE), "state_function_b",
               Some("state_function_a"), None, None, None),
      StepArgs("NodeD", Task, "state_function_d", None, None, None,
               Some(TRUE)) }

KindSteps ==
    { StepArgs("NodeS", Succeed, "state_function_a", None, None, None, None),
      StepArgs("NodeF", Fail, "state_function_b", None, None, None, None),
      StepArgs("NodeP", Pass, "pass", None, None, None, None),
      StepArgs("NodeA", Task, "state_function_a", None, None, None, None) }

StepInputs(sc) ==
    CASE sc = "basic" -> BasicSteps
      [] sc = "custom" -> CustomSteps
      [] sc = "catch" -> CatchSteps
      [] sc = "kinds" -> KindSteps

\* the ids execute_by_id is called with: the ids of the program and one
\* that is never registered
IdInputs(sc) == {a.id : a \in StepInputs(sc)} \cup {"NoSuchNode"}

(***************************************************************************)
(* The state machine.                                                      *)
(***************************************************************************)
Ret(kind, message) ==
    [kind |-> kind, message |-> message, ids |-> EmptyBag]

CallOf(op, arg) == [op |-> op, arg |-> arg]

\* the retry budgets the programs construct their machine with: only
\* custom.rs has a node with a retry list, the others never read the budget
RetriesInputs(sc) == IF sc = "custom" THEN 0..MaxRetries ELSE {MaxRetries}

\* the number of times the flaky function fails before it succeeds
FailsInputs(sc) == IF sc \in {"basic", "kinds"} THEN {0} ELSE 0..MaxFails

\* StateMachine::new, with the shared data the caller built
Init ==
    /\ scenario \in Scenarios
    /\ id = "MachineA011"
    /\ nodes = <<>>
    /\ node_ids = {}
    /\ retries \in RetriesInputs(scenario)
    /\ shared_data \in [counter : {InitialCounter},
                        fails : FailsInputs(scenario)]
    /\ error_string = None
    /\ pc = "idle"
    /\ cursor = 0
    /\ log = <<>>
    /\ attempts = 0
    /\ result = Ret("None", "")
    /\ last_call = CallOf("new", "")
    /\ ncalls = 0

\* an insertion that reports every value as new
HashSetInsertAlwaysFresh(set, v) == [set |-> set \cup {v}, fresh |-> TRUE]

\* HashSet::insert: the set after the insertion, and whether the value is new
HashSetInsert(set, v) == [set |-> set \cup {v}, fresh |-> v \notin set]

\* the node pushed before the id is checked
StepPushFirst(a) ==
    /\ pc = "idle"
    /\ nodes' = Append(nodes, NewNode(a))
    /\ LET ins == HashSetInsert(node_ids, a.id)
       IN /\ node_ids' = ins.set
          /\ result' = IF ~ins.fresh
                       THEN Ret("Panic", "Duplicate node ID found: " \o a.id)
                       ELSE Ret("Unit", "")
    /\ last_call' = CallOf("step", a.id)
    /\ log' = <<>>
    /\ attempts' = 0
    /\ UNCHANGED <<scenario, id, retries, shared_data, error_string, pc,
                   cursor, ncalls>>

\* StateMachine::step
Step(a) ==
    /\ pc = "idle"
    /\ LET ins == HashSetInsert(node_ids, a.id)
       IN /\ node_ids' = ins.set
          /\ IF ~ins.fresh
             THEN /\ result' = Ret("Panic", "Duplicate node ID found: " \o a.id)
                  /\ nodes' = nodes
             ELSE /\ result' = Ret("Unit", "")
                  /\ nodes' = Append(nodes, NewNode(a))
    /\ last_call' = CallOf("step", a.id)
    /\ log' = <<>>
    /\ attempts' = 0
    /\ UNCHANGED <<scenario, id, retries, shared_data, error_string, pc,
                   cursor, ncalls>>

\* StateMachine::validate_node_ids
ValidateNodeIds ==
    /\ pc = "idle"
    /\ result' = IF Len(nodes) # Cardinality(node_ids)
                 THEN Ret("Panic",
                          "Duplicate node IDs found in the state machine")
                 ELSE Ret("Unit", "")
    /\ last_call' = CallOf("validate_node_ids", "")
    /\ log' = <<>>
    /\ attempts' = 0
    /\ UNCHANGED <<scenario, id, nodes, node_ids, retries, shared_data,
                   error_string, pc, cursor, ncalls>>

\* the vector collected from a HashSet's iterator, up to its order, which
\* the HashSet leaves open: every element of the set once
HashSetIter(set) == SetToBag(set)

\* StateMachine::get_node_ids
GetNodeIds ==
    /\ pc = "idle"
    /\ result' = [kind |-> "Ids", message |-> "",
                  ids |-> HashSetIter(node_ids)]
    /\ last_call' = CallOf("get_node_ids", "")
    /\ log' = <<>>
    /\ attempts' = 0
    /\ UNCHANGED <<scenario, id, nodes, node_ids, retries, shared_data,
                   error_string, pc, cursor, ncalls>>

\* a scan that falls back on the first node when no node has the id
FirstIndexOrFirst(seq, nid) ==
    IF \E i \in 1..Len(seq) : seq[i].id = nid
    THEN CHOOSE i \in 1..Len(seq) :
            /\ seq[i].id = nid
            /\ \A j \in 1..(i - 1) : seq[j].id # nid
    ELSE IF Len(seq) > 0 THEN 1 ELSE 0

\* the position of the first node with the id, 0 when there is none
FirstIndex(seq, nid) ==
    IF \E i \in 1..Len(seq) : seq[i].id = nid
    THEN CHOOSE i \in 1..Len(seq) :
            /\ seq[i].id = nid
            /\ \A j \in 1..(i - 1) : seq[j].id # nid
    ELSE 0

\* the single node run through the checks of the loop of execute()
ExecuteByIdChecked(nid) ==
    /\ pc = "idle"
    /\ ncalls < MaxCalls
    /\ ncalls' = ncalls + 1
    /\ last_call' = CallOf("execute_by_id", nid)
    /\ attempts' = 0
    /\ LET k == FirstIndex(nodes, nid)
       IN IF k = 0
          THEN /\ result' = Ret("Ok", "")
               /\ log' = <<>>
               /\ shared_data' = shared_data
          ELSE LET f == ProcessNode(nodes[k], shared_data, error_string, id,
                                    retries)
               IN /\ result' = IF f.flow = "return_err"
                               THEN Ret("Err", f.message)
                               ELSE Ret("Ok", "")
                  /\ log' = f.log
                  /\ shared_data' = f.data
    /\ UNCHANGED <<scenario, id, nodes, node_ids, retries, error_string, pc,
                   cursor>>

\* StateMachine::execute_by_id
ExecuteById(nid) ==
    /\ pc = "idle"
    /\ ncalls < MaxCalls
    /\ ncalls' = ncalls + 1
    /\ last_call' = CallOf("execute_by_id", nid)
    /\ attempts' = 0
    /\ LET k == FirstIndex(nodes, nid)
       IN IF k = 0
          THEN /\ result' = Ret("Ok", "")
               /\ log' = <<>>
               /\ shared_data' = shared_data
          ELSE LET r == NodeExecute(nodes[k], shared_data)
               IN /\ result' = IF r.ok THEN Ret("Ok", "")
                               ELSE Ret("Err", r.err)
                  /\ log' = r.log
                  /\ shared_data' = r.data
    /\ UNCHANGED <<scenario, id, nodes, node_ids, retries, error_string, pc,
                   cursor>>

\* StateMachine::execute is called: the for loop starts at the first node
Execute ==
    /\ pc = "idle"
    /\ ncalls < MaxCalls
    /\ ncalls' = ncalls + 1
    /\ last_call' = CallOf("execute", "")
    /\ pc' = "execute"
    /\ cursor' = 1
    /\ log' = <<>>
    /\ attempts' = 0
    /\ result' = Ret("None", "")
    /\ UNCHANGED <<scenario, id, nodes, node_ids, retries, shared_data,
                   error_string>>

\* one iteration of the for loop of execute, lines 225-302
ExecuteNode ==
    /\ pc = "execute"
    /\ cursor <= Len(nodes)
    /\ LET f == ProcessNode(nodes[cursor], shared_data, error_string, id,
                            retries)
       IN /\ shared_data' = f.data
          /\ error_string' = f.error_string
          /\ log' = log \o f.log
          /\ attempts' = f.attempts
          /\ CASE f.flow = "continue" ->
                    /\ cursor' = cursor + 1
                    /\ UNCHANGED <<pc, result>>
               [] f.flow = "break" ->
                    /\ pc' = "idle"
                    /\ result' = Ret("Ok", "")
                    /\ cursor' = cursor
               [] f.flow = "return_err" ->
                    /\ pc' = "idle"
                    /\ result' = Ret("Err", f.message)
                    /\ cursor' = cursor
               [] f.flow = "panic" ->
                    /\ pc' = "idle"
                    /\ result' = Ret("Panic",
                         "the operation could not be completed due to an unrecoverable error")
                    /\ cursor' = cursor
    /\ UNCHANGED <<scenario, id, nodes, node_ids, retries, last_call, ncalls>>

\* the for loop of execute is exhausted: line 304
ExecuteReturn ==
    /\ pc = "execute"
    /\ cursor > Len(nodes)
    /\ pc' = "idle"
    /\ result' = Ret("Ok", "")
    /\ UNCHANGED <<scenario, id, nodes, node_ids, retries, shared_data,
                   error_string, cursor, log, attempts, last_call, ncalls>>

Next ==
    \/ \E a \in StepInputs(scenario) : Step(a)
    \/ ValidateNodeIds
    \/ GetNodeIds
    \/ \E nid \in IdInputs(scenario) : ExecuteById(nid)
    \/ Execute
    \/ ExecuteNode
    \/ ExecuteReturn

Spec == Init /\ [][Next]_vars

(***************************************************************************)
(* exponential_backoff called on its own: the operation is the execute of  *)
(* one node, the budget and the number of failures of the flaky function   *)
(* are the caller's.                                                       *)
(***************************************************************************)
BackoffOps ==
    { NewNode(StepArgs("Op", Task, "flaky", None, None, None, None)),
      NewNode(StepArgs("Op", Task, "error", None, None, None, None)),
      NewNode(StepArgs("Op", Choice(TRUE), "flaky", None, None, None, None)) }

InitBackoff ==
    /\ scenario = "backoff"
    /\ id = "MachineA011"
    /\ nodes \in {<<n>> : n \in BackoffOps}
    /\ node_ids = {"Op"}
    /\ retries \in 0..MaxBudget
    /\ shared_data \in [counter : {InitialCounter}, fails : 0..MaxBudget]
    /\ error_string = None
    /\ pc = "idle"
    /\ cursor = 0
    /\ log = <<>>
    /\ attempts = 0
    /\ result = Ret("None", "")
    /\ last_call = CallOf("new", "")
    /\ ncalls = 0

\* exponential_backoff(|x| node.execute(x), data, Some(retries))
BackoffCall ==
    /\ pc = "idle"
    /\ ncalls < 1
    /\ ncalls' = ncalls + 1
    /\ LET b == exponential_backoff(nodes[1], shared_data, retries)
       IN /\ result' = Ret(b.outcome, b.err)
          /\ shared_data' = b.data
          /\ log' = b.log
          /\ attempts' = b.attempts
    /\ last_call' = CallOf("exponential_backoff", "")
    /\ UNCHANGED <<scenario, id, nodes, node_ids, retries, error_string, pc,
                   cursor>>

NextBackoff == BackoffCall

SpecBackoff == InitBackoff /\ [][NextBackoff]_vars

(***************************************************************************)
(* What the properties below speak about.                                  *)
(***************************************************************************)
\* an execute() call has returned
PassDone == pc = "idle" /\ last_call.op = "execute"

NodeById(nid) == nodes[FirstIndex(nodes, nid)]

HasTerminal == \E i \in 1..Len(nodes) : IsTerminal(nodes[i])

FirstTerminal ==
    CHOOSE i \in 1..Len(nodes) :
        /\ IsTerminal(nodes[i])
        /\ \A j \in 1..(i - 1) : ~IsTerminal(nodes[j])

\* the positions of the log where the work of the node was invoked
WorkAt(nid) == {i \in DOMAIN log : log[i].ev = "work" /\ log[i].node = nid}

\* the positions of the log that belong to the node
EventsOf(nid) == {i \in DOMAIN log : log[i].node = nid}

\* the node runs its work when it is executed
RunsWork(node) ==
    \/ node.state.kind = "Task"
    \/ node.state.kind = "Choice" /\ node.state.pred

IdsOf(seq) == [i \in 1..Len(seq) |-> seq[i].id]

NodesOf(seq) == [i \in 1..Len(seq) |-> seq[i].node]

IsWorkEvent(e) == e.ev = "work"

\* the positions of the log where a function failed
FailedAt == {i \in DOMAIN log : log[i].res \notin {"Ok", ""}}

NoFailureLogged == FailedAt = {}

\* the machine of tests/basic.rs
BasicMachine ==
    << NewNode(StepArgs("NodeA", Task, "state_function_a", None, None, None,
                        None)),
       NewNode(StepArgs("NodeB", Task, "state_function_b", None, None, None,
                        None)),
       NewNode(StepArgs("NodeC", Task, "state_function_c", None, None, None,
                        None)),
       NewNode(StepArgs("NodeD", Task, "state_function_d", None, None, None,
                        Some(TRUE))) >>

(***************************************************************************)
(* C1.  A node registered with end = Some(true) stops the pass after it    *)
(* runs: when execute() has returned Ok on a machine with such a node, the *)
(* work of the first such node was invoked exactly once and no function of *)
(* a node registered after it was invoked; on the machine of basic.rs,     *)
(* started with the counter 5, the counter ends at 530.                    *)
(***************************************************************************)
C1_TerminalNodeRunsOnce ==
    (PassDone /\ result.kind = "Ok" /\ HasTerminal) =>
        /\ RunsWork(nodes[FirstTerminal]) =>
               Cardinality(WorkAt(nodes[FirstTerminal].id)) = 1
        /\ \A j \in (FirstTerminal + 1)..Len(nodes) :
               EventsOf(nodes[j].id) = {}
        /\ (nodes = BasicMachine /\ ncalls = 1) => shared_data.counter = 530

C3_AllSucceedInOrder ==
    (PassDone /\ error_string = None /\ ~HasTerminal /\ NoFailureLogged) =>
        /\ result.kind = "Ok"
        /\ NodesOf(SelectSeq(log, IsWorkEvent))
               = IdsOf(SelectSeq(nodes, RunsWork))

C3_Witness ==
    /\ PassDone
    /\ error_string = None
    /\ ~HasTerminal
    /\ NoFailureLogged
    /\ result.kind = "Ok"
    /\ Len(nodes) = 3
    /\ Len(SelectSeq(log, IsWorkEvent)) >= 1
    /\ \E i \in 1..Len(nodes) : nodes[i].state = Choice(FALSE)

(***************************************************************************)
(* C4.  A step() call with an id that is already registered panics and     *)
(* leaves the node sequence and the id set as they were, and no execute()  *)
(* or execute_by_id() runs over a machine with two nodes of the same id.   *)
(***************************************************************************)
C4_DuplicateStepRejected ==
    /\ [][(last_call'.op = "step" /\ last_call'.arg \in node_ids)
             => /\ result'.kind = "Panic"
                /\ nodes' = nodes
                /\ node_ids' = node_ids]_vars
    /\ []((pc = "execute" \/ last_call.op \in {"execute", "execute_by_id"})
             => \A i, j \in 1..Len(nodes) :
                    i # j => nodes[i].id # nodes[j].id)

\* a rejected step, and later a pass over the machine
C4_Witness ==
    /\ last_call.op = "step"
    /\ result.kind = "Panic"
    /\ Len(nodes) >= 2
    /\ ncalls >= 1

(***************************************************************************)
(* C5.  The ids of the nodes are pairwise distinct and the id set is the   *)
(* set of the ids of the nodes; get_node_ids() returns every registered id *)
(* once and validate_node_ids() does not panic.                            *)
(***************************************************************************)
C5_IdsUnique ==
    /\ \A i, j \in 1..Len(nodes) : i # j => nodes[i].id # nodes[j].id
    /\ node_ids = {nodes[i].id : i \in 1..Len(nodes)}
    /\ last_call.op = "validate_node_ids" => result.kind = "Unit"
    /\ last_call.op = "get_node_ids" =>
           /\ BagToSet(result.ids) = {nodes[i].id : i \in 1..Len(nodes)}
           /\ \A x \in BagToSet(result.ids) : CopiesIn(x, result.ids) = 1

\* get_node_ids() called after a rejected duplicate and a pass
C5_Witness ==
    /\ last_call.op = "get_node_ids"
    /\ Len(nodes) >= 3
    /\ ncalls >= 1
    /\ BagCardinality(result.ids) = Len(nodes)

(***************************************************************************)
(* C6.  In a pass, a failed first work invocation of a node is followed by *)
(* a call of the backoff primitive exactly when the node has a retry list  *)
(* that contains the failure's description; without it the work of the     *)
(* node is invoked once in the pass.                                       *)
(***************************************************************************)
C6_BackoffIffRetryMatches ==
    last_call.op = "execute" =>
        \A i \in DOMAIN log :
            (log[i].ev = "work" /\ log[i].res # "Ok"
                /\ \A j \in WorkAt(log[i].node) : i <= j) =>
               LET n == NodeById(log[i].node)
                   matches == IsSome(n.retry) /\ log[i].res \in Unwrap(n.retry)
                   backoff == /\ i + 1 \in DOMAIN log
                              /\ log[i + 1] = BackoffEvent(n.id)
               IN /\ backoff <=> matches
                  /\ ~matches => /\ WorkAt(n.id) = {i}
                                 /\ i = Len(log)

\* a failure with the description in the retry list, retried
C6_Witness ==
    /\ PassDone
    /\ \E i \in DOMAIN log :
          /\ log[i] = BackoffEvent("Node0")
          /\ Cardinality(WorkAt("Node0")) >= 2

(***************************************************************************)
(* C7.  The retry budget is not clamped: for an operation that always      *)
(* fails and a budget N >= 0, exponential_backoff invokes the operation    *)
(* N + 1 times and returns the error of the last invocation.               *)
(***************************************************************************)
C7_BudgetNotClamped ==
    (last_call.op = "exponential_backoff"
        /\ nodes[1].state_function = "error") =>
        /\ result = Ret("Err", STATE_FAILED)
        /\ attempts = retries + 1

\* C7 as amended: the budget is clamped at 5: the operation is invoked
\* min(N, 5) + 1 times and the error of the last invocation is returned
C7_BudgetClamped ==
    (last_call.op = "exponential_backoff"
        /\ nodes[1].state_function = "error") =>
        /\ result = Ret("Err", STATE_FAILED)
        /\ attempts = (IF retries > 5 THEN 5 ELSE retries) + 1

C7_Witness ==
    /\ last_call.op = "exponential_backoff"
    /\ nodes[1].state_function = "error"
    /\ retries > 5
    /\ attempts = 6

(***************************************************************************)
(* C8.  For an operation that fails on its first two invocations and       *)
(* succeeds on the third, exponential_backoff with a budget >= 3 returns   *)
(* Ok after exactly 3 invocations.                                         *)
(***************************************************************************)
C8_SucceedsOnThird ==
    (last_call.op = "exponential_backoff"
        /\ nodes[1].state_function = "flaky"
        /\ shared_data.fails + Cardinality(FailedAt) = 2
        /\ retries >= 3) =>
        /\ result.kind = "Ok"
        /\ attempts = 3
        /\ Len(log) = 3
        /\ log[3].res = "Ok"

C8_Witness ==
    /\ last_call.op = "exponential_backoff"
    /\ nodes[1].state_function = "flaky"
    /\ retries >= 3
    /\ attempts = 3
    /\ result.kind = "Ok"
    /\ shared_data.fails = 0

(***************************************************************************)
(* C9.  Every failure is a returned value: execute() returns Ok or Err and *)
(* never panics, whatever the budget and the work functions do.            *)
(***************************************************************************)
C9_ExecuteNeverPanics ==
    last_call.op = "execute" => result.kind # "Panic"

(***************************************************************************)
(* C10.  When the first work invocation of a node fails in a pass,         *)
(* execute() returns Err with the description of that failure and no node  *)
(* after it is processed, with or without a retry.                         *)
(***************************************************************************)
C10_FirstFailureSurfaced ==
    PassDone =>
        \A i \in DOMAIN log :
            (log[i].ev = "work" /\ log[i].res # "Ok"
                /\ \A j \in WorkAt(log[i].node) : i <= j) =>
               /\ result = Ret("Err", log[i].res)
               /\ \A k \in (FirstIndex(nodes, log[i].node) + 1)..Len(nodes) :
                      EventsOf(nodes[k].id) = {}

(***************************************************************************)
(* What one iteration of the loop of execute() adds to the log.            *)
(***************************************************************************)
\* the loop of execute() stands at a node that is not terminal
AtNode == pc = "execute" /\ cursor <= Len(nodes) /\ ~IsTerminal(nodes[cursor])

\* the entries the step adds to the log
Added == SubSeq(log', Len(log) + 1, Len(log'))

IsCatchEvent(e) == e.ev = "catch"

IsNextEvent(e) == e.ev = "next"

\* the entries of the catch table that contain the pending error
MatchesPending(block) == Unwrap(error_string) \in block.error_equals

RECURSIVE ApplyEvents(_, _)
\* the data after the functions of the log entries were called in order
ApplyEvents(evs, data) ==
    IF evs = <<>> THEN data
    ELSE ApplyEvents(Tail(evs), Call(Head(evs).f, data).data)

(***************************************************************************)
(* C11.  At a node with a catch table and a pending error set, the         *)
(* recovery functions of the entries that contain the pending error are    *)
(* invoked once each in table order, before anything else of the node, and *)
(* no other recovery function is; a recovery failure ends the pass with    *)
(* Err before a later entry runs.                                          *)
(***************************************************************************)
C11_CatchAllMatchesInOrder ==
    [][(AtNode /\ IsSome(error_string) /\ IsSome(nodes[cursor].catch)) =>
          LET matching == SelectSeq(Unwrap(nodes[cursor].catch),
                                    MatchesPending)
              ce == SelectSeq(Added, IsCatchEvent)
          IN /\ Len(ce) <= Len(matching)
             /\ SubSeq(Added, 1, Len(ce)) = ce
             /\ \A k \in 1..Len(ce) :
                   /\ ce[k].f = matching[k].next
                   /\ ce[k].node = nodes[cursor].id
                   /\ k < Len(ce) => ce[k].res = "Ok"
             /\ (\A k \in 1..Len(ce) : ce[k].res = "Ok")
                    => Len(ce) = Len(matching)
             /\ (ce # <<>> /\ ce[Len(ce)].res # "Ok")
                    => /\ Added = ce
                       /\ pc' = "idle"
                       /\ result'.kind = "Err"
                       /\ error_string' = Some(ce[Len(ce)].res)]_vars

\* two matching entries ran, the entry between them did not
C11_Witness ==
    /\ PassDone
    /\ \E i \in DOMAIN log :
          /\ i + 1 \in DOMAIN log
          /\ log[i] = [ev |-> "catch", node |-> "NodeB",
                       f |-> "state_function_a", res |-> "Ok"]
          /\ log[i + 1] = [ev |-> "catch", node |-> "NodeB",
                           f |-> "state_function_d", res |-> "Ok"]

(***************************************************************************)
(* C12.  At a node with a catch table and a pending error that no entry    *)
(* of the table contains, the pass fails with the pending error's message  *)
(* and the node's override and work are not invoked.                       *)
(***************************************************************************)
C12_NoMatchFailsPass ==
    [][(AtNode /\ IsSome(error_string) /\ IsSome(nodes[cursor].catch)
           /\ SelectSeq(Unwrap(nodes[cursor].catch), MatchesPending) = <<>>)
          => /\ pc' = "idle"
             /\ result'.kind = "Err"
             /\ result'.message \in {Unwrap(error_string),
                                     DebugFmt(error_string)}
             /\ log' = log]_vars

(***************************************************************************)
(* C13.  In execute(), a Choice node whose predicate is false never has    *)
(* its work invoked and the shared data after the node was processed is    *)
(* the shared data before it.                                              *)
(***************************************************************************)
C13_ChoiceFalseLeavesData ==
    [][(AtNode /\ nodes[cursor].state.kind = "Choice"
           /\ ~nodes[cursor].state.pred)
          => /\ \A i \in DOMAIN Added : Added[i].ev # "work"
             /\ shared_data' = shared_data]_vars

\* C13 as amended: the work is never invoked, and the shared data after the
\* node is the shared data before it changed by nothing but the node's
\* catch recovery functions and next override that ran
C13_ChoiceFalseLeavesDataButOverride ==
    [][(AtNode /\ nodes[cursor].state.kind = "Choice"
           /\ ~nodes[cursor].state.pred)
          => /\ \A i \in DOMAIN Added : Added[i].ev \in {"catch", "next"}
             /\ shared_data' = ApplyEvents(Added, shared_data)
             /\ Added = <<>> => shared_data' = shared_data]_vars

\* a Choice node with a false predicate and an override was processed
C13_Witness ==
    /\ last_call.op = "execute"
    /\ WorkAt("NodeE") = {}
    /\ \E i \in DOMAIN log :
          log[i] = [ev |-> "next", node |-> "NodeE",
                    f |-> "state_function_a", res |-> "Ok"]
    /\ shared_data.counter # InitialCounter

(***************************************************************************)
(* C14.  execute_by_id(id) on a registered id runs the state-kind rule of  *)
(* the node with that id and nothing else: the work is invoked once for a  *)
(* Task or a Choice with a true predicate and not at all otherwise, also   *)
(* for a terminal node and with a pending error set; no override, recovery *)
(* function or backoff is invoked, the pending error is unchanged, and the *)
(* call returns Err with the work's description exactly when the work      *)
(* fails.                                                                  *)
(***************************************************************************)
C14_ExecuteByIdIsolated ==
    [][(last_call'.op = "execute_by_id" /\ ncalls' = ncalls + 1
           /\ last_call'.arg \in node_ids) =>
          LET n == NodeById(last_call'.arg)
          IN /\ error_string' = error_string
             /\ nodes' = nodes
             /\ attempts' = 0
             /\ Len(log') = (IF RunsWork(n) THEN 1 ELSE 0)
             /\ \A i \in DOMAIN log' :
                   /\ log'[i].ev = "work"
                   /\ log'[i].node = n.id
                   /\ log'[i].f = n.state_function
             /\ shared_data' = ApplyEvents(log', shared_data)
             /\ result' = IF log' # <<>> /\ log'[1].res # "Ok"
                          THEN Ret("Err", log'[1].res)
                          ELSE Ret("Ok", "")]_vars

\* a terminal node run by its id while a pending error is set
C14_Witness ==
    /\ last_call = CallOf("execute_by_id", "NodeD")
    /\ IsSome(error_string)
    /\ Len(log) = 1
    /\ log[1].node = "NodeD"
    /\ result.kind = "Ok"

(***************************************************************************)
(* C15.  execute_by_id(id) with an id no node has returns Ok, invokes      *)
(* nothing and leaves the shared data, the pending error and the nodes     *)
(* unchanged, every time it is called.                                     *)
(***************************************************************************)
C15_ExecuteByIdUnknown ==
    [][(last_call'.op = "execute_by_id" /\ ncalls' = ncalls + 1
           /\ last_call'.arg \notin node_ids) =>
          /\ result' = Ret("Ok", "")
          /\ log' = <<>>
          /\ UNCHANGED <<shared_data, error_string, nodes, node_ids>>]_vars

\* the call made a second time on a machine that has nodes
C15_Witness ==
    /\ last_call = CallOf("execute_by_id", "NoSuchNode")
    /\ ncalls = 2
    /\ result = Ret("Ok", "")
    /\ log = <<>>
    /\ Len(nodes) >= 2
    /\ shared_data.counter = InitialCounter

(***************************************************************************)
(* C16.  A node of kind Succeed or Fail ends the pass: when execute()      *)
(* processes such a node that is not flagged terminal, no node after it is *)
(* processed, and a Fail node makes the pass return Err.                   *)
(***************************************************************************)
C16_SucceedFailEndPass ==
    [][(AtNode /\ nodes[cursor].state.kind \in {"Succeed", "Fail"}) =>
          /\ pc' = "idle"
          /\ nodes[cursor].state.kind = "Fail" => result'.kind = "Err"]_vars

(***************************************************************************)
(* C17.  The invocation counter of a node counts its invocations by the    *)
(* engine and the guard fails the pass when it has reached 2, so that no   *)
(* node's work is invoked a third time by a pass, backoff retries          *)
(* included.                                                               *)
(***************************************************************************)
C17_InvocationGuard ==
    last_call.op = "execute" =>
        \A i \in 1..Len(nodes) :
            /\ Cardinality(WorkAt(nodes[i].id)) <= 2
            /\ WorkAt(nodes[i].id) # {} => nodes[i].invocation_count >= 1

(***************************************************************************)
(* C18.  After an execute() call that returned Err, the pending error is   *)
(* set and holds the description of the error that ended the pass, be it a *)
(* work failure, an override failure or a recovery failure.                *)
(***************************************************************************)
C18_PendingErrorIsLastError ==
    (PassDone /\ result.kind = "Err") =>
        /\ IsSome(error_string)
        /\ result.message \in {Unwrap(error_string), DebugFmt(error_string)}

(***************************************************************************)
(* C19.  Unrecovered-error propagation: at a node that is not terminal and *)
(* has no catch table, with a pending error set, execute() returns Err     *)
(* with the pending error at once: no override or work is invoked and no   *)
(* later node is processed.                                                *)
(***************************************************************************)
C19_PendingErrorPropagates ==
    [][(AtNode /\ IsSome(error_string) /\ ~IsSome(nodes[cursor].catch)) =>
          /\ pc' = "idle"
          /\ result' = Ret("Err", DebugFmt(error_string))
          /\ log' = log
          /\ UNCHANGED <<shared_data, error_string, cursor>>]_vars

\* a pass that ran a node with a catch table and stopped at the next node,
\* which has none
C19_Witness ==
    /\ PassDone
    /\ IsSome(error_string)
    /\ result = Ret("Err", DebugFmt(error_string))
    /\ cursor >= 2
    /\ cursor <= Len(nodes)
    /\ ~IsTerminal(nodes[cursor])
    /\ ~IsSome(nodes[cursor].catch)
    /\ IsSome(nodes[cursor].next)
    /\ EventsOf(nodes[cursor].id) = {}
    /\ log # <<>>

C21_ThreeEndings ==
    /\ PassDone =>
          /\ result.kind \in {"Ok", "Err"}
          /\ result.kind = "Ok" =>
                \/ cursor > Len(nodes)
                \/ cursor <= Len(nodes) /\ IsTerminal(nodes[cursor])
    /\ last_call.op = "execute" =>
          /\ \A i, j \in DOMAIN log :
                i < j => FirstIndex(nodes, log[i].node)
                            <= FirstIndex(nodes, log[j].node)
          /\ \A k \in 1..Len(nodes) :
                Cardinality(WorkAt(nodes[k].id))
                    <= 1 + (IF retries > 5 THEN 5 ELSE retries) + 1

(***************************************************************************)
(* C22.  While execute() runs with no pending error, no recovery function  *)
(* of a catch table is invoked and the pass does not fail by propagation   *)
(* of a pending error; the pending error is set only by a failed next      *)
(* override or recovery function, with which the pass returns at once; a   *)
(* work failure does not set it and no other call writes it.  So the first *)
(* call on a new machine invokes no recovery function.                     *)
(***************************************************************************)
C22_CatchOnlyAfterPendingError ==
    /\ [][(pc = "execute" /\ error_string = None) =>
             /\ \A i \in DOMAIN Added : Added[i].ev # "catch"
             /\ (pc' = "idle" /\ result'.kind = "Err") =>
                   \E i \in DOMAIN Added : Added[i].res \notin {"Ok", ""}
             /\ error_string' # None =>
                   /\ pc' = "idle"
                   /\ result'.kind = "Err"
                   /\ Added[Len(Added)].ev = "next"
                   /\ error_string' = Some(Added[Len(Added)].res)]_vars
    /\ [][pc # "execute" => error_string' = error_string]_vars
    /\ [][(pc = "execute"
             /\ \E i \in DOMAIN Added :
                   Added[i].ev = "work" /\ Added[i].res # "Ok")
            => error_string' = error_string]_vars
    /\ []((ncalls = 1 /\ last_call.op = "execute") =>
             \A i \in DOMAIN log : log[i].ev # "catch")

\* a node with a catch table was processed with no pending error: its
\* recovery functions were not invoked
C22_Witness ==
    /\ PassDone
    /\ error_string = None
    /\ WorkAt("NodeB") # {}
    /\ \A i \in DOMAIN log : log[i].ev # "catch"
    /\ Len(nodes) >= 2
    /\ result.kind = "Ok"

(***************************************************************************)
(* C23.  The pending error is never cleared: once it is set it stays set   *)
(* under every later call, also after a matching recovery function has     *)
(* succeeded, after which the loop goes on with the same pending error; a  *)
(* later node that is not terminal and has no catch table then fails the   *)
(* pass with it.                                                           *)
(***************************************************************************)
C23_PendingErrorNeverCleared ==
    /\ [][IsSome(error_string) => IsSome(error_string')]_vars
    /\ [][(AtNode /\ IsSome(error_string) /\ pc' = "execute")
             => error_string' = error_string]_vars
    /\ []((PassDone /\ cursor <= Len(nodes) /\ ~IsTerminal(nodes[cursor])
             /\ ~IsSome(nodes[cursor].catch)
             /\ \E i \in DOMAIN log : log[i].ev = "catch")
            => /\ IsSome(error_string)
               /\ result = Ret("Err", DebugFmt(error_string)))

\* a recovery function succeeded at one node and the next node, without a
\* catch table, failed the pass with the pending error
C23_Witness ==
    /\ PassDone
    /\ cursor >= 2
    /\ cursor <= Len(nodes)
    /\ ~IsTerminal(nodes[cursor])
    /\ ~IsSome(nodes[cursor].catch)
    /\ \E i \in DOMAIN log : log[i].ev = "catch" /\ log[i].res = "Ok"
    /\ EventsOf(nodes[cursor].id) = {}
    /\ error_string = Some(STATE_FAILED)
    /\ result = Ret("Err", DebugFmt(error_string))

====
